---- MODULE Spec2Model ----
(***************************************************************************)
(* Bank Stacx 2.0 (src/app.py): a Streamlit script.  The file holds two    *)
(* revisions of the script one after the other:                            *)
(*   rev 1 (lines 1-144): load the sheet, pick a bank, ratios and CCAR    *)
(*          metrics against the market average, summary;                   *)
(*   rev 2 (lines 165-280, the code block of the text that starts at      *)
(*          line 147): loader with upload fallback and session state,      *)
(*          peer selection by neighbours in the sorted bank list, ratios   *)
(*          against the peer-set average, CCAR table, summary.             *)
(* The string opened at line 147 is never closed, so the file as it is    *)
(* committed does not compile: run as one script it raises SyntaxError     *)
(* before any statement runs (rev 0 below).  Revisions 1 and 2 are the     *)
(* two scripts the file holds, each run on its own.                        *)
(* A run of a script is a sequence of steps; an exception ends the run.    *)
(* streamlit and plotly are not part of the repository and no release is   *)
(* pinned: where releases differ on a call the script makes (the range     *)
(* check of st.number_input, the annotation position of fig.add_hline),    *)
(* the call has either outcome.                                            *)
(* A float is modelled by the exact rational it stands for (the double is  *)
(* within a few ulps of it), or inf, -inf, nan.                            *)
(***************************************************************************)
EXTENDS Integers, Sequences, FiniteSets, TLC

\* ------------------------------------------------------------------ bounds
\* Longest sheet (rows) of the datasets that vary the names freely.
MaxRows == 4
\* Rows of the datasets with repeated or nan names beside four banks.
LongRows == 5
\* Rows of the value-varying datasets of rev 2.
RatioRows == 4
\* Longest sheet of the datasets of rev 1.
MaxRowsV1 == 2
\* read_excel calls followed in one session (a file that cannot be read is
\* read again on every rerun).
MaxReads == 3

\* ------------------------------------------------------------------ floats
\* A float: k = "num" is the rational n/d (d > 0, lowest terms);
\* "inf", "ninf" and "nan" are the IEEE specials; "none" is Python's None /
\* a value never computed.
Rat(n, d) == [k |-> "num", n |-> n, d |-> d]
Num(n) == Rat(n, 1)
NaN == [k |-> "nan", n |-> 0, d |-> 1]
PosInf == [k |-> "inf", n |-> 0, d |-> 1]
NegInf == [k |-> "ninf", n |-> 0, d |-> 1]
NoValue == [k |-> "none", n |-> 0, d |-> 1]

Abs(x) == IF x < 0 THEN -x ELSE x

RECURSIVE Gcd(_, _)
Gcd(a, b) == IF b = 0 THEN a ELSE Gcd(b, a % b)

\* n/d in lowest terms with a positive denominator (d # 0).
Norm(n, d) ==
  LET s == IF d < 0 THEN -1 ELSE 1
      g == Gcd(Abs(n), Abs(d))
  IN Rat((s * n) \div g, (s * d) \div g)

IsNum(x) == x.k = "num"
IsNaN(x) == x.k = "nan"

\* Float addition.
FAdd(a, b) ==
  IF IsNaN(a) \/ IsNaN(b) THEN NaN
  ELSE IF IsNum(a) /\ IsNum(b) THEN Norm(a.n * b.d + b.n * a.d, a.d * b.d)
  ELSE IF IsNum(a) THEN b
  ELSE IF IsNum(b) THEN a
  ELSE IF a.k = b.k THEN a
  ELSE NaN

\* Float division of two sheet cells (numbers or nan) as pandas does it:
\* x/0 is +-inf, 0/0 is nan, nothing raises.  A zero is the positive zero
\* (no cell of the sheets below is negative or -0.0).
FDiv(a, b) ==
  IF IsNaN(a) \/ IsNaN(b) THEN NaN
  ELSE IF ~IsNum(b) THEN (IF IsNum(a) THEN Num(0) ELSE NaN)
  ELSE IF ~IsNum(a) THEN
    (IF b.n < 0 THEN (IF a.k = "inf" THEN NegInf ELSE PosInf) ELSE a)
  ELSE IF b.n = 0 THEN
    (IF a.n = 0 THEN NaN ELSE IF a.n > 0 THEN PosInf ELSE NegInf)
  ELSE Norm(a.n * b.d, a.d * b.n)

\* a > b on floats: every comparison with nan is False.
FGt(a, b) ==
  IF IsNaN(a) \/ IsNaN(b) THEN FALSE
  ELSE IF IsNum(a) /\ IsNum(b) THEN a.n * b.d > b.n * a.d
  ELSE IF a.k = "inf" THEN b.k # "inf"
  ELSE IF a.k = "ninf" THEN FALSE
  ELSE b.k = "ninf"

RECURSIVE FSum(_)
FSum(s) == IF s = <<>> THEN Num(0) ELSE FAdd(Head(s), FSum(Tail(s)))

\* Series.mean(): skipna=True drops the nan entries (and only those: inf
\* stays); the mean of no entries is nan.
Mean(s) ==
  LET kept == SelectSeq(s, LAMBDA x : ~IsNaN(x))
      total == FSum(kept)
  IN IF kept = <<>> THEN NaN
     ELSE IF IsNum(total) THEN Norm(total.n, total.d * Len(kept))
     ELSE total

\* format(x, ".2%") and format(x, " .2%"): the kind of text that results,
\* "pct" for a finite number (digits and a percent sign), "nan" for
\* "nan%", "inf" for "inf%", "ninf" for "-inf%".  The digits are those of
\* the binary double times 100 and are not modelled; neither is the
\* blank that " .2%" puts before a text without a minus sign.
FormatPct(x) == [k |-> IF IsNum(x) THEN "pct" ELSE x.k]
NoText == [k |-> "none"]

\* ------------------------------------------------------------------ sheets
BANK_COL == "Bank"
\* A missing (NaN) cell of the Bank column, and None (no selection).
NaNBank == "<NaN>"
NoBank == "<None>"
\* The bank names of the model, in lexicographic order.
BankOrder == <<"A", "B", "C", "D", "E">>
BankNames == {BankOrder[i] : i \in 1..Len(BankOrder)}
Rank(b) == CHOOSE i \in 1..Len(BankOrder) : BankOrder[i] = b

fin_cols == {
  "PAT", "Depreciation", "Total Liabilities (excluding equity)",
  "Cash & cash equivalents", "Total Assets", "Current Assets",
  "Current Liabilities", "Accounts Receivables", "Marketable Securities",
  "Core Deposits", "Total Deposits", "Loans", "Non performing assets",
  "Tier-1 Capital", "Tier-2 capital", "Risk weighted assets"}

\* rev 1: display name -> column.
ccar_cols_v1 == [
  d \in {"Common Equity Tier 1 Capital", "Tier 1 Capital Ratio", "Total Capital",
         "Leverage Ratio", "Supplementary Tier 1"} |->
    CASE d = "Common Equity Tier 1 Capital" -> "CET1_ratio"
      [] d = "Tier 1 Capital Ratio" -> "Tier1_ratio"
      [] d = "Total Capital" -> "Total_capital_ratio"
      [] d = "Leverage Ratio" -> "Leverage_ratio"
      [] OTHER -> "Supp_Tier1_ratio"]
CcarColumnsV1 == {ccar_cols_v1[d] : d \in DOMAIN ccar_cols_v1}

\* rev 2: the columns of the CCAR table.
ccar_cols == {"Common Equity Tier 1 Capital", "Tier 1 Capital Ratio", "Total Capital",
              "Leverage Ratio", "Supplementary Tier 1"}

\* The columns the rev 1 summary reads.
summary_cols == {"Coupon Rate (%)", "Flat Price", "Yield to Maturity (YTC%)",
                 "Modified Duration"}

AllCols == fin_cols \cup CcarColumnsV1 \cup ccar_cols \cup summary_cols

\* The rows the model's sheets are made of: four kinds of record.
\*   1, 2: every figure present and every denominator non-zero
\*         (1 and 2 are banks A and B of the spec's example: 80/100, 60/120);
\*   3: every denominator 0, numerators non-zero;
\*   4: operands missing (nan cells) or 0/0.
Profiles == 1..4
Cell(p, c) ==
  CASE c = "Core Deposits" -> (CASE p = 1 -> Num(80) [] p = 2 -> Num(60) [] p = 3 -> Num(5) [] OTHER -> NaN)
    [] c = "Total Deposits" -> (CASE p = 1 -> Num(100) [] p = 2 -> Num(120) [] OTHER -> Num(0))
    [] c = "Non performing assets" -> (CASE p = 1 -> Num(2) [] p = 2 -> Num(3) [] p = 3 -> Num(1) [] OTHER -> Num(0))
    [] c = "Loans" -> (CASE p = 1 -> Num(50) [] p = 2 -> Num(90) [] OTHER -> Num(0))
    [] c = "Cash & cash equivalents" -> (CASE p = 1 -> Num(10) [] p = 2 -> Num(30) [] p = 3 -> Num(3) [] OTHER -> NaN)
    [] c = "Total Assets" -> (CASE p = 1 -> Num(200) [] p = 2 -> Num(300) [] OTHER -> Num(0))
    [] c = "Current Liabilities" -> (CASE p = 1 -> Num(40) [] p = 2 -> Num(60) [] OTHER -> Num(0))
    [] c = "Tier-1 Capital" -> (CASE p = 1 -> Num(12) [] p = 2 -> Num(20) [] p = 3 -> Num(2) [] OTHER -> Num(0))
    [] c = "Tier-2 capital" -> (CASE p = 1 -> Num(4) [] p = 2 -> Num(10) [] p = 3 -> Num(1) [] OTHER -> NaN)
    [] c = "Risk weighted assets" -> (CASE p = 1 -> Num(160) [] p = 2 -> Num(250) [] OTHER -> Num(0))
    [] c = "Total Liabilities (excluding equity)" -> (CASE p = 1 -> Num(150) [] p = 2 -> Num(240) [] OTHER -> Num(0))
    [] c \in CcarColumnsV1 \cup ccar_cols -> (CASE p = 1 -> Rat(1, 8) [] p = 2 -> Rat(1, 10) [] p = 3 -> Num(0) [] OTHER -> NaN)
    [] OTHER -> Num(p)

\* One row of a sheet: the bank name, the kind of record p that gives its
\* cells as read from the sheet, and x, the cells assigned after the load
\* (df[col] = ...), which take precedence.
NoCells == [c \in {} |-> NaN]
Row(b, p) == [Bank |-> b, p |-> p, x |-> NoCells]

\* A DataFrame: its columns (besides Bank) and its rows, in order.
\* kind "none" is no frame at all; kind "alias" is a name bound to the
\* object df_raw (rev 1, line 49: get_peer_group returns df itself).
Frame(cols, rows) == [kind |-> "df", cols |-> cols, rows |-> rows]
NoFrame == [kind |-> "none", cols |-> {}, rows |-> <<>>]
AliasOfDfRaw == [kind |-> "alias", cols |-> {}, rows |-> <<>>]

\* The file at DATA_FILE: absent, a workbook holding a sheet, or a file
\* read_excel cannot read.
NoFile == [kind |-> "absent", cols |-> {}, rows |-> <<>>]
CorruptFile == [kind |-> "corrupt", cols |-> {}, rows |-> <<>>]
Workbook(cols, rows) == [kind |-> "xlsx", cols |-> cols, rows |-> rows]

\* pd.read_excel(path) of a readable workbook.
ReadExcel(file) == Frame(file.cols, file.rows)

\* The cell of row r in column c.
CellOf(r, c) == IF c \in DOMAIN r.x THEN r.x[c] ELSE Cell(r.p, c)
\* df[c] as a sequence of cells.
Column(df, c) == [i \in 1..Len(df.rows) |-> CellOf(df.rows[i], c)]
BankColumn(df) == [i \in 1..Len(df.rows) |-> df.rows[i].Bank]

\* df[c] = vals (one value per row): adds or replaces the column.
WithColumn(df, c, vals) ==
  [df EXCEPT !.cols = @ \cup {c},
             !.rows = [i \in 1..Len(df.rows) |->
                        [df.rows[i] EXCEPT !.x = [y \in (DOMAIN df.rows[i].x) \cup {c} |->
                                                    IF y = c THEN vals[i] ELSE df.rows[i].x[y]]]]]

RECURSIVE WithNaNColumns(_, _)
\* for col in cs: df[col] = np.nan.
WithNaNColumns(df, cs) ==
  IF cs = {} THEN df
  ELSE LET c == CHOOSE y \in cs : TRUE
       IN WithNaNColumns(WithColumn(df, c, [i \in 1..Len(df.rows) |-> NaN]), cs \ {c})

\* df[df["Bank"] == b]: nan and None equal nothing.
RowsOfBank(df, b) ==
  [df EXCEPT !.rows = SelectSeq(df.rows, LAMBDA r : r.Bank = b /\ b \notin {NaNBank, NoBank})]

\* df[df["Bank"].isin(names)].
RowsIsin(df, names) == [df EXCEPT !.rows = SelectSeq(df.rows, LAMBDA r : r.Bank \in names)]

\* ------------------------------------------------------------- bank lists
RECURSIVE UniqueFrom(_, _)
UniqueFrom(s, seen) ==
  IF s = <<>> THEN <<>>
  ELSE IF Head(s) \in seen THEN UniqueFrom(Tail(s), seen)
  ELSE <<Head(s)>> \o UniqueFrom(Tail(s), seen \cup {Head(s)})
\* Series.unique(): the distinct entries in order of first appearance.
Unique(s) == UniqueFrom(s, {})

\* Series.dropna().
DropNa(s) == SelectSeq(s, LAMBDA b : b # NaNBank)

RECURSIVE InsertSorted(_, _)
InsertSorted(b, s) ==
  IF s = <<>> THEN <<b>>
  ELSE IF Rank(b) <= Rank(Head(s)) THEN <<b>> \o s
  ELSE <<Head(s)>> \o InsertSorted(b, Tail(s))
RECURSIVE Sorted(_)
\* sorted(names): ascending in lexicographic order.
Sorted(s) == IF s = <<>> THEN <<>> ELSE InsertSorted(Head(s), Sorted(Tail(s)))

\* rev 2, list_banks(df).
list_banks(df) == Sorted(Unique(DropNa(BankColumn(df))))
\* rev 1, df_raw["Bank"].unique().tolist(): unsorted, a nan name kept.
BanksV1(df) == Unique(BankColumn(df))

\* s[lo:hi] on a Python list for 0 <= lo, 0 <= hi (0-based, hi exclusive,
\* both clipped at the end of the list).
PySlice(s, lo, hi) ==
  LET l == IF lo > Len(s) THEN Len(s) ELSE lo
      h == IF hi > Len(s) THEN Len(s) ELSE hi
  IN IF l >= h THEN <<>> ELSE SubSeq(s, l + 1, h)

Max(a, b) == IF a >= b THEN a ELSE b

\* banks.index(b), 0-based (b is in banks).
IndexOf(s, b) == (CHOOSE i \in 1..Len(s) : s[i] = b /\ \A j \in 1..(i - 1) : s[j] # b) - 1
InList(s, b) == \E i \in 1..Len(s) : s[i] = b

\* Variant: only the banks after the selected one ("pick next N banks").
peer_banks_following_only(bs, sel_idx, n) == PySlice(bs, sel_idx + 1, sel_idx + 1 + n)

\* rev 2, lines 215-216.
peer_banks(bs, sel_idx, n) ==
  PySlice(bs, Max(0, sel_idx - n), sel_idx) \o PySlice(bs, sel_idx + 1, sel_idx + 1 + n)

\* st.selectbox(label, options): one of the options, None when there are none.
SelectboxValues(options) ==
  IF options = <<>> THEN {NoBank} ELSE {options[i] : i \in 1..Len(options)}

\* st.number_input(label, min_value, max_value, value): whether the call
\* raises StreamlitAPIException, as the set of outcomes over the releases
\* of streamlit.  A default within [min_value, max_value] never raises.
\* A default outside raises, except that the releases which test
\* "(min_value and min_value > value) or (max_value and max_value < value)"
\* skip a bound that is 0, while later releases test it like any other.
PEER_DEFAULT == 3
NumberInputRaises(lo, hi, value) ==
  IF lo <= value /\ value <= hi THEN {FALSE}
  ELSE IF (lo # 0 /\ value < lo) \/ (hi # 0 /\ value > hi) THEN {TRUE}
  ELSE BOOLEAN
\* What the call returns when it does not raise: the default, or what the
\* user set within the range.
NumberInputValues(lo, hi, value) == {value} \cup (lo..hi)

\* fig.add_hline(..., annotation_text=..., annotation_position=p): whether
\* the call raises ValueError, as the set of outcomes over the releases of
\* plotly.  The positions plotly documents for the annotation of a line
\* (top/bottom and left/right, the words in any order) are accepted; for
\* any other, such as the "outside ..." positions of rectangles, the
\* release at hand either rejects the position or places the annotation.
LinePositions == {{"top", "left"}, {"top", "right"}, {"bottom", "left"}, {"bottom", "right"},
                  {"top"}, {"bottom"}, {"left"}, {"right"}}
AddHLineRaises(position) == IF position \in LinePositions THEN {FALSE} ELSE BOOLEAN

\* ----------------------------------------------------------------- ratios
\* rev 2, metric_defs.
MetricNames == {"Core deposits / total deposits", "NPAs / total loans", "Liquidity ratio",
                "Capital adequacy ratio", "Solvency ratio", "Loans / deposits"}
metric_defs(m, r) ==
  CASE m = "Core deposits / total deposits" ->
         FDiv(CellOf(r, "Core Deposits"), CellOf(r, "Total Deposits"))
    [] m = "NPAs / total loans" ->
         FDiv(CellOf(r, "Non performing assets"), CellOf(r, "Loans"))
    [] m = "Liquidity ratio" ->
         FDiv(CellOf(r, "Cash & cash equivalents"), CellOf(r, "Current Liabilities"))
    [] m = "Capital adequacy ratio" ->
         FDiv(FAdd(CellOf(r, "Tier-1 Capital"), CellOf(r, "Tier-2 capital")),
              CellOf(r, "Risk weighted assets"))
    [] m = "Solvency ratio" ->
         FDiv(CellOf(r, "Tier-1 Capital"), CellOf(r, "Total Liabilities (excluding equity)"))
    [] OTHER ->
         FDiv(CellOf(r, "Loans"), CellOf(r, "Total Deposits"))

\* rev 1, ratio_options and the columns of ratio_df (lines 70-77).
ratio_options == {"core deposits to total deposits", "NPAs to total loans", "liquidity ratio",
                  "capital adequacy ratio", "Solvency Ratio", "loans to deposit ratio"}
RatioV1(m, r) ==
  CASE m = "core deposits to total deposits" ->
         FDiv(CellOf(r, "Core Deposits"), CellOf(r, "Total Deposits"))
    [] m = "NPAs to total loans" ->
         FDiv(CellOf(r, "Non performing assets"), CellOf(r, "Loans"))
    [] m = "liquidity ratio" ->
         FDiv(CellOf(r, "Cash & cash equivalents"), CellOf(r, "Total Assets"))
    [] m = "capital adequacy ratio" ->
         FDiv(FAdd(CellOf(r, "Tier-1 Capital"), CellOf(r, "Tier-2 capital")),
              CellOf(r, "Risk weighted assets"))
    [] m = "Solvency Ratio" ->
         FDiv(CellOf(r, "Total Liabilities (excluding equity)"), CellOf(r, "Total Assets"))
    [] OTHER ->
         FDiv(CellOf(r, "Loans"), CellOf(r, "Total Deposits"))

\* ------------------------------------------------------------------ inputs
SeqsUpTo(S, n) == UNION {[1..k -> S] : k \in 0..n}

\* The kind of record each bank has in the sheets that vary the names.
ProfileOfName(b) == IF b \in {"B", "D"} THEN 2 ELSE 1

\* Sheets that vary the Bank column: every sequence of at most MaxRows names
\* (repeated names and nan names included), every sequence of LongRows
\* names out of four banks and nan, and every order of all the names.
NameSheets ==
  {Workbook(AllCols, [i \in 1..Len(ns) |-> Row(ns[i], ProfileOfName(ns[i]))]) :
     ns \in SeqsUpTo(BankNames \cup {NaNBank}, MaxRows)
            \cup [1..LongRows -> {"A", "B", "C", "D", NaNBank}]
            \cup {q \in [1..Len(BankOrder) -> BankNames] :
                    \A i, j \in 1..Len(BankOrder) : i # j => q[i] # q[j]}}

\* Sheets that vary the figures: banks A, B, ... with every kind of record.
ValueSheets ==
  {Workbook(AllCols, [i \in 1..RatioRows |-> Row(BankOrder[i], ps[i])]) :
     ps \in [1..RatioRows -> Profiles]}

\* Sheets that vary the columns: the financial columns with or without the
\* CCAR columns of either revision and the summary's columns.
FourBanks == [i \in 1..4 |-> Row(BankOrder[i], ProfileOfName(BankOrder[i]))]
ColumnSheets ==
  {Workbook(cs, FourBanks) :
     cs \in {fin_cols,
             fin_cols \cup summary_cols,
             AllCols \ {"Leverage Ratio", "Leverage_ratio"},
             AllCols \ {"PAT"}}}

\* Sheets of rev 1: at most MaxRowsV1 rows over two names and nan, every
\* kind of record, all columns; and the column-varying sheets.
SheetsV1 ==
  {Workbook(AllCols, [i \in 1..Len(rs) |-> Row(rs[i][1], rs[i][2])]) :
     rs \in SeqsUpTo({"A", "B", NaNBank} \X Profiles, MaxRowsV1)}
  \cup ColumnSheets

SheetsV2 == NameSheets \cup ValueSheets \cup ColumnSheets

\* What the user may drop on the uploader.
Uploads == {CorruptFile,
            Workbook(AllCols, FourBanks),
            Workbook(fin_cols, FourBanks)}

\* ------------------------------------------------------------------- state
VARIABLES
  rev,            \* the script that is run: 0 the file as committed,
                  \* 1 revision 1 on its own, 2 revision 2 on its own
  disk,           \* the file at DATA_FILE
  session,        \* rev 2: st.session_state.df_raw (NoFrame: key not set)
  pc,             \* the position of the current run in the script
  outcome,        \* "running", "done", "stopped", "rerun" or the exception raised
  uploader,       \* this run rendered the file uploader
  upload,         \* this run's upload (line 187), NoFile when there is none
  reads,          \* calls of read_excel so far
  loaded,         \* rev 1: what st.cache_data holds for cached_data()
  df_raw,         \* the run's df_raw
  banks,
  selected_bank,
  selected_row,   \* rev 1: selected_bank_df, <<>> or <<row>>
  peer_count,
  peer_df,
  ratio_df,       \* rev 1
  metric,         \* rev 2: metric, rev 1: chosen_ratio
  sector_avg,     \* rev 2: sector_avg, rev 1: market_avg
  ccar_metric,    \* rev 1: the CCAR metric chosen
  ccar_avg,       \* rev 1: market_avg_ccar
  shown           \* what the run has put on the page

vars == <<rev, disk, session, pc, outcome, uploader, upload, reads, loaded, df_raw, banks,
          selected_bank, selected_row, peer_count, peer_df, ratio_df, metric,
          sector_avg, ccar_metric, ccar_avg, shown>>

\* The run's local names; a rerun starts without them.
locals == <<df_raw, banks, selected_bank, selected_row, peer_count, peer_df, ratio_df,
            metric, sector_avg, ccar_metric, ccar_avg, shown>>

NothingShown ==
  [avgText |-> NoText,      \* the average in st.metric (rev 1) / the chart title (rev 2)
   avgLine |-> NoValue,     \* y of fig.add_hline
   ccarTable |-> FALSE,     \* rev 2: the CCAR table
   valText |-> NoText,      \* rev 2 summary: the bank's value
   ccarText |-> NoText,     \* rev 1: the CCAR market average in st.metric
   ccarLine |-> NoValue,    \* rev 1: y of fig2.add_hline
   sumText |-> NoText,      \* summary: the average (rev 2) / capital adequacy (rev 1)
   of_sector |-> "none"]

LocalsInit ==
  /\ df_raw = NoFrame
  /\ banks = <<>>
  /\ selected_bank = NoBank
  /\ selected_row = <<>>
  /\ peer_count = 0
  /\ peer_df = NoFrame
  /\ ratio_df = NoFrame
  /\ metric = "none"
  /\ sector_avg = NoValue
  /\ ccar_metric = "none"
  /\ ccar_avg = NoValue
  /\ shown = NothingShown

LocalsReset ==
  /\ df_raw' = NoFrame
  /\ banks' = <<>>
  /\ selected_bank' = NoBank
  /\ selected_row' = <<>>
  /\ peer_count' = 0
  /\ peer_df' = NoFrame
  /\ ratio_df' = NoFrame
  /\ metric' = "none"
  /\ sector_avg' = NoValue
  /\ ccar_metric' = "none"
  /\ ccar_avg' = NoValue
  /\ shown' = NothingShown

Init ==
  /\ rev \in {0, 1, 2}
  /\ disk \in {NoFile, CorruptFile}
              \cup (CASE rev = 0 -> ColumnSheets [] rev = 1 -> SheetsV1 [] OTHER -> SheetsV2)
  /\ session = NoFrame
  /\ pc = "start"
  /\ outcome = "running"
  /\ uploader = FALSE
  /\ upload = NoFile
  /\ reads = 0
  /\ loaded = NoFrame
  /\ LocalsInit

\* An exception ends the run where it is raised.
Raise(e) == pc' = "end" /\ outcome' = e

\* ------------------------------------------------- the file as committed
\* The triple-quoted string opened at line 147 is not closed before the end
\* of the file: compiling the script raises SyntaxError and no statement of
\* it runs, whatever the file at DATA_FILE is.
CompileFile ==
  /\ rev = 0 /\ pc = "start"
  /\ Raise("SyntaxError")
  /\ UNCHANGED <<rev, disk, session, uploader, upload, reads, loaded, locals>>

\* ------------------------------------------------------------ rev 2: loader
\* Variant: the key is never found (the session is not consulted).
InSessionState_Never(ss) == FALSE
\* "df_raw" in st.session_state.
InSessionState(ss) == ss # NoFrame

\* Lines 182-184: no df_raw in the session and the file exists.
V2LoadFromDisk ==
  /\ rev = 2 /\ pc = "start"
  /\ ~InSessionState(session)
  /\ disk.kind # "absent"
  /\ reads < MaxReads
  /\ reads' = reads + 1
  /\ IF disk.kind = "corrupt"
       THEN /\ Raise("ReadError")
            /\ UNCHANGED <<session, df_raw>>
       ELSE /\ session' = ReadExcel(disk)
            /\ df_raw' = session'
            /\ pc' = "loaded"
            /\ UNCHANGED outcome
  /\ UNCHANGED <<rev, disk, uploader, upload, loaded, banks, selected_bank, selected_row, peer_count,
                 peer_df, ratio_df, metric, sector_avg, ccar_metric, ccar_avg, shown>>

\* Lines 185-188 and 195-196: the file is absent, the uploader is shown and
\* holds no file: st.stop().
V2AwaitUpload ==
  /\ rev = 2 /\ pc = "start"
  /\ ~InSessionState(session)
  /\ disk.kind = "absent"
  /\ uploader' = TRUE
  /\ pc' = "end" /\ outcome' = "stopped"
  /\ UNCHANGED <<rev, disk, session, upload, reads, loaded, locals>>

\* Lines 185-192: the uploader holds a file: write it to DATA_FILE, load it
\* into the session, rerun.
V2Upload ==
  /\ rev = 2 /\ pc = "start"
  /\ ~InSessionState(session)
  /\ disk.kind = "absent"
  /\ \E f \in Uploads :
       /\ uploader' = TRUE
       /\ upload' = f
       /\ disk' = f
       /\ reads' = reads + 1
       /\ IF f.kind = "corrupt"
            THEN /\ Raise("ReadError")
                 /\ UNCHANGED session
            ELSE /\ session' = ReadExcel(f)
                 /\ pc' = "end" /\ outcome' = "rerun"
  /\ UNCHANGED <<rev, loaded, locals>>

\* Lines 182, 195, 198: the session holds df_raw.
V2UseSession ==
  /\ rev = 2 /\ pc = "start"
  /\ InSessionState(session)
  /\ df_raw' = session
  /\ pc' = "loaded"
  /\ UNCHANGED <<rev, disk, session, outcome, uploader, upload, reads, loaded, banks, selected_bank,
                 selected_row, peer_count, peer_df, ratio_df, metric, sector_avg, ccar_metric, ccar_avg, shown>>

\* Any interaction (or experimental_rerun) runs the script again from the
\* top; the session state and the file stay.
Rerun ==
  /\ pc = "end"
  /\ pc' = "start"
  /\ outcome' = "running"
  /\ uploader' = FALSE
  /\ upload' = NoFile
  /\ LocalsReset
  /\ UNCHANGED <<rev, disk, session, reads, loaded>>

\* --------------------------------------------------- rev 2: peer selection
\* Line 218: the rows of df whose bank is the selected bank or a peer, copied.
PeerFrame(df, sel, peers) ==
  RowsIsin(df, {sel} \cup {peers[i] : i \in 1..Len(peers)})

\* Lines 209-218.
V2SelectPeers ==
  /\ rev = 2 /\ pc = "loaded"
  /\ banks' = list_banks(df_raw)
  /\ \E b \in SelectboxValues(banks') :
       /\ selected_bank' = b
       /\ \E raises \in NumberInputRaises(1, Len(banks') - 1, PEER_DEFAULT) :
          IF raises
            THEN /\ Raise("StreamlitAPIException")
                 /\ UNCHANGED <<peer_count, peer_df>>
            ELSE \E n \in NumberInputValues(1, Len(banks') - 1, PEER_DEFAULT) :
                   /\ peer_count' = n
                   /\ IF ~InList(banks', b)
                        THEN /\ Raise("ValueError")
                             /\ UNCHANGED peer_df
                        ELSE /\ peer_df' = PeerFrame(df_raw, b,
                                                     peer_banks(banks', IndexOf(banks', b), n))
                             /\ pc' = "peers"
                             /\ UNCHANGED outcome
  /\ UNCHANGED <<rev, disk, session, uploader, upload, reads, loaded, df_raw, selected_row,
                 ratio_df, metric, sector_avg, ccar_metric, ccar_avg, shown>>

\* ------------------------------------------------------ rev 2: key metrics
\* Lines 233-258: the peer table, then the chosen metric as a new column of
\* peer_df, its mean, and the chart with the mean in its title and as a line.
V2KeyMetrics ==
  /\ rev = 2 /\ pc = "peers"
  /\ IF ~(fin_cols \subseteq peer_df.cols)
       THEN /\ Raise("KeyError")
            /\ UNCHANGED <<peer_df, metric, sector_avg, shown>>
       ELSE \E m \in MetricNames :
              /\ metric' = m
              /\ peer_df' = WithColumn(peer_df, m,
                              [i \in 1..Len(peer_df.rows) |-> metric_defs(m, peer_df.rows[i])])
              /\ sector_avg' = Mean(Column(peer_df', m))
              /\ FALSE \in AddHLineRaises({"top", "left"})
              /\ shown' = [shown EXCEPT !.avgText = FormatPct(sector_avg'),
                                        !.avgLine = sector_avg']
              /\ pc' = "metrics"
              /\ UNCHANGED outcome
  /\ UNCHANGED <<rev, disk, session, uploader, upload, reads, loaded, df_raw, banks, selected_bank,
                 selected_row, peer_count, ratio_df, ccar_metric, ccar_avg>>

\* peer_df.loc[peer_df["Bank"] == b, m].iloc[0]: the first matching row's
\* value (there is one: b's rows are in peer_df).
FirstValue(df, b, m) == CellOf(RowsOfBank(df, b).rows[1], m)

\* Line 275.
OfSector(val, avg) == IF FGt(val, avg) THEN "above" ELSE "below"

\* ---------------------------------------- rev 2: CCAR table and summary
\* Lines 263-280.
V2CcarSummary ==
  /\ rev = 2 /\ pc = "metrics"
  /\ IF ~(ccar_cols \subseteq peer_df.cols)
       THEN /\ Raise("KeyError")
            /\ UNCHANGED shown
       ELSE /\ shown' = [shown EXCEPT
                           !.ccarTable = TRUE,
                           !.valText = FormatPct(FirstValue(peer_df, selected_bank, metric)),
                           !.sumText = FormatPct(sector_avg),
                           !.of_sector = OfSector(FirstValue(peer_df, selected_bank, metric),
                                                  sector_avg)]
            /\ pc' = "end" /\ outcome' = "done"
  /\ UNCHANGED <<rev, disk, session, uploader, upload, reads, loaded, df_raw, banks, selected_bank,
                 selected_row, peer_count, peer_df, ratio_df, metric, sector_avg, ccar_metric, ccar_avg>>

\* ------------------------------------------------------------- rev 1: load
\* Lines 41-45: cached_data() calls pd.read_excel unless st.cache_data holds
\* the result of an earlier call, and st.cache_data hands every run its own
\* copy of what was read.  A call that raises (no file: FileNotFoundError;
\* a file that cannot be read) caches nothing.
V1Load ==
  /\ rev = 1 /\ pc = "start"
  /\ IF loaded # NoFrame
       THEN /\ df_raw' = loaded
            /\ pc' = "loaded"
            /\ UNCHANGED <<outcome, reads, loaded>>
       ELSE /\ reads < MaxReads
            /\ reads' = reads + 1
            /\ IF disk.kind = "absent"
                 THEN /\ Raise("FileNotFoundError")
                      /\ UNCHANGED <<loaded, df_raw>>
                 ELSE IF disk.kind = "corrupt"
                   THEN /\ Raise("ReadError")
                        /\ UNCHANGED <<loaded, df_raw>>
                   ELSE /\ loaded' = ReadExcel(disk)
                        /\ df_raw' = loaded'
                        /\ pc' = "loaded"
                        /\ UNCHANGED outcome
  /\ UNCHANGED <<rev, disk, session, uploader, upload, banks, selected_bank, selected_row, peer_count,
                 peer_df, ratio_df, metric, sector_avg, ccar_metric, ccar_avg, shown>>

\* .iloc[0] raises IndexError on a frame without rows.
ILoc0Raises(df) == df.rows = <<>>

\* Lines 47-50: the bank list, the selection, the peer group (df_raw itself)
\* and the selected bank's row.
V1SelectBank ==
  /\ rev = 1 /\ pc = "loaded"
  /\ banks' = BanksV1(df_raw)
  /\ \E b \in SelectboxValues(banks') :
       /\ selected_bank' = b
       /\ peer_df' = AliasOfDfRaw
       /\ IF ILoc0Raises(RowsOfBank(df_raw, b))
            THEN /\ Raise("IndexError")
                 /\ UNCHANGED selected_row
            ELSE /\ selected_row' = <<RowsOfBank(df_raw, b).rows[1]>>
                 /\ pc' = "selected"
                 /\ UNCHANGED outcome
  /\ UNCHANGED <<rev, disk, session, uploader, upload, reads, loaded, df_raw, peer_count, ratio_df,
                 metric, sector_avg, ccar_metric, ccar_avg, shown>>

RECURSIVE WithRatioColumns(_, _)
\* Lines 70-77: one new column per ratio.
WithRatioColumns(df, ms) ==
  IF ms = {} THEN df
  ELSE LET m == CHOOSE y \in ms : TRUE
       IN WithRatioColumns(WithColumn(df, m, [i \in 1..Len(df.rows) |-> RatioV1(m, df.rows[i])]),
                           ms \ {m})

\* Lines 53-100: the peer table, ratio_df (a copy of peer_df with the ratio
\* columns), the chosen ratio's mean in st.metric, then the chart with its
\* average line: fig.add_hline at the position "outside top" either raises
\* ValueError, which ends the run without the chart, or draws the line.
V1KeyMetrics ==
  /\ rev = 1 /\ pc = "selected"
  /\ IF ~(fin_cols \subseteq df_raw.cols)
       THEN /\ Raise("KeyError")
            /\ UNCHANGED <<ratio_df, metric, sector_avg, shown>>
       ELSE \E m \in ratio_options, raises \in AddHLineRaises({"outside", "top"}) :
              /\ ratio_df' = WithRatioColumns(df_raw, ratio_options)
              /\ metric' = m
              /\ sector_avg' = Mean(Column(ratio_df', m))
              /\ IF raises
                   THEN /\ shown' = [shown EXCEPT !.avgText = FormatPct(sector_avg')]
                        /\ Raise("ValueError")
                   ELSE /\ shown' = [shown EXCEPT !.avgText = FormatPct(sector_avg'),
                                                  !.avgLine = sector_avg']
                        /\ pc' = "metrics"
                        /\ UNCHANGED outcome
  /\ UNCHANGED <<rev, disk, session, uploader, upload, reads, loaded, df_raw, banks, selected_bank,
                 selected_row, peer_count, peer_df, ccar_metric, ccar_avg>>

\* Lines 103-132 (reached when line 99 drew its line): every CCAR column
\* the sheet lacks is added to peer_df, which is df_raw, as nan; the chosen
\* metric's mean (skipna) in st.metric and as the chart's line, which
\* fig2.add_hline draws at the position line 99 was given.
V1Ccar ==
  /\ rev = 1 /\ pc = "metrics"
  /\ FALSE \in AddHLineRaises({"outside", "top"})
  /\ df_raw' = WithNaNColumns(df_raw, CcarColumnsV1 \ df_raw.cols)
  /\ \E d \in DOMAIN ccar_cols_v1 :
       /\ ccar_metric' = d
       /\ ccar_avg' = Mean(Column(df_raw', ccar_cols_v1[d]))
       /\ shown' = [shown EXCEPT !.ccarText = FormatPct(ccar_avg'),
                                 !.ccarLine = ccar_avg']
  /\ pc' = "ccar"
  /\ UNCHANGED <<rev, disk, session, outcome, uploader, upload, reads, loaded, banks, selected_bank,
                 selected_row, peer_count, peer_df, ratio_df, metric, sector_avg>>

\* selected_bank_df.get("capital adequacy ratio", np.nan): selected_bank_df is
\* a row of the sheet as loaded, which has the ratio only if the sheet has
\* such a column.
SummaryCar(row, cols) ==
  IF "capital adequacy ratio" \in cols THEN CellOf(row, "capital adequacy ratio") ELSE NaN

\* Lines 136-144: the summary reads the selected row (taken at line 50).
V1Summary ==
  /\ rev = 1 /\ pc = "ccar"
  /\ IF ~(summary_cols \subseteq loaded.cols)
       THEN /\ Raise("KeyError")
            /\ UNCHANGED shown
       ELSE /\ shown' = [shown EXCEPT
                           !.sumText = FormatPct(SummaryCar(selected_row[1], loaded.cols))]
            /\ pc' = "end" /\ outcome' = "done"
  /\ UNCHANGED <<rev, disk, session, uploader, upload, reads, loaded, df_raw, banks, selected_bank,
                 selected_row, peer_count, peer_df, ratio_df, metric, sector_avg, ccar_metric,
                 ccar_avg>>

NextV1 ==
  \/ V1Load
  \/ V1SelectBank
  \/ V1KeyMetrics
  \/ V1Ccar
  \/ V1Summary

NextV2 ==
  \/ V2LoadFromDisk
  \/ V2AwaitUpload
  \/ V2Upload
  \/ V2UseSession
  \/ V2SelectPeers
  \/ V2KeyMetrics
  \/ V2CcarSummary

Next == CompileFile \/ NextV1 \/ NextV2 \/ Rerun

Spec == Init /\ [][Next]_vars

\* ================================================================== claims
\* The bank names of the rows of peer_df.
PeerNames == {peer_df.rows[i].Bank : i \in 1..Len(peer_df.rows)}
\* The frame the ratio was computed in: ratio_df (rev 1), peer_df (rev 2).
RatioFrame == IF rev = 1 THEN ratio_df ELSE peer_df
RatioComputed == metric # "none" /\ RatioFrame.kind = "df"
\* The bank is one of the sheet's banks (nan and None are no bank).
BankInDataset(df, b) == b \in BankNames /\ \E i \in 1..Len(df.rows) : df.rows[i].Bank = b
Min(a, b) == IF a <= b THEN a ELSE b
\* The run has passed the point where the bank is chosen.
BankChosen == df_raw.kind = "df" /\ pc \notin {"start", "loaded"}
\* Nothing after the bank's choice has been computed or shown: no peer set,
\* no selected row, no ratio, no average, no text or line on the page.
NothingComputed ==
  /\ peer_df = NoFrame
  /\ selected_row = <<>>
  /\ ratio_df = NoFrame
  /\ metric = "none"
  /\ sector_avg = NoValue
  /\ ccar_metric = "none"
  /\ ccar_avg = NoValue
  /\ shown = NothingShown

\* C1: the peer set of rev 2 holds the selected bank, has at most 2N+1 rows
\* and holds no bank name twice, also when the sheet repeats a bank name.
C1_PeerSetClaim ==
  (rev = 2 /\ peer_df.kind = "df") =>
    /\ selected_bank \in PeerNames
    /\ Len(peer_df.rows) <= 2 * peer_count + 1
    /\ \A i, j \in 1..Len(peer_df.rows) : i # j => peer_df.rows[i].Bank # peer_df.rows[j].Bank

\* C2: banks is sorted in lexicographic order and, with the selected bank at
\* index i (0-based), the peer set's names are exactly those at indices
\* max(0, i-N) .. min(last, i+N); for [A,B,C,D,E], C, N=1 they are {B,C,D};
\* for the first bank and N=3 they are the bank and up to 3 following ones.
C2_PeerWindow ==
  (rev = 2 /\ peer_df.kind = "df") =>
    /\ \A j, k \in 1..Len(banks) : j < k => Rank(banks[j]) < Rank(banks[k])
    /\ \E i \in 0..(Len(banks) - 1) :
         /\ banks[i + 1] = selected_bank
         /\ PeerNames = {banks[k + 1] : k \in Max(0, i - peer_count)..Min(Len(banks) - 1, i + peer_count)}
    /\ (banks = <<"A", "B", "C", "D", "E">> /\ selected_bank = "C" /\ peer_count = 1)
         => PeerNames = {"B", "C", "D"}
    /\ (selected_bank = banks[1] /\ peer_count = 3)
         => PeerNames = {banks[k] : k \in 1..Min(4, Len(banks))}

\* C2's case: five banks read from an unsorted sheet, C selected, N = 1.
C2_Witness ==
  /\ rev = 2 /\ peer_df.kind = "df"
  /\ banks = <<"A", "B", "C", "D", "E">>
  /\ BankColumn(df_raw) # banks
  /\ selected_bank = "C" /\ peer_count = 1
  /\ PeerNames = {"B", "C", "D"}

\* The denominator cell of the chosen ratio, as the revision computes it.
DenominatorCell(m, r) ==
  CASE m \in {"Core deposits / total deposits", "Loans / deposits",
              "core deposits to total deposits", "loans to deposit ratio"} -> CellOf(r, "Total Deposits")
    [] m \in {"NPAs / total loans", "NPAs to total loans"} -> CellOf(r, "Loans")
    [] m = "Liquidity ratio" -> CellOf(r, "Current Liabilities")
    [] m \in {"liquidity ratio", "Solvency Ratio"} -> CellOf(r, "Total Assets")
    [] m = "Solvency ratio" -> CellOf(r, "Total Liabilities (excluding equity)")
    [] OTHER -> CellOf(r, "Risk weighted assets")

\* C3: a record whose denominator is zero is left out of the average, which
\* is the mean of the other records' values, and those values are produced.
C3_ZeroDenominatorExcluded ==
  LET others == SelectSeq(RatioFrame.rows, LAMBDA r : DenominatorCell(metric, r) # Num(0))
  IN (RatioComputed /\ 0 < Len(others) /\ Len(others) < Len(RatioFrame.rows)) =>
       /\ sector_avg = Mean([i \in 1..Len(others) |-> CellOf(others[i], metric)])
       /\ \A i \in 1..Len(others) : CellOf(others[i], metric).k \in {"num", "nan"}

\* The catalog's ratio of a record whose operands are numbers and whose
\* denominator is not zero.
Quotient(a, b) == Norm(a.n * b.d, a.d * b.n)
CatalogRatio(m, r) ==
  CASE m \in {"Core deposits / total deposits", "core deposits to total deposits"} ->
         Quotient(CellOf(r, "Core Deposits"), CellOf(r, "Total Deposits"))
    [] m \in {"NPAs / total loans", "NPAs to total loans"} ->
         Quotient(CellOf(r, "Non performing assets"), CellOf(r, "Loans"))
    [] m \in {"Liquidity ratio", "liquidity ratio"} ->
         Quotient(CellOf(r, "Cash & cash equivalents"), CellOf(r, "Total Assets"))
    [] m \in {"Capital adequacy ratio", "capital adequacy ratio"} ->
         Quotient(Rat(CellOf(r, "Tier-1 Capital").n + CellOf(r, "Tier-2 capital").n, 1),
                  CellOf(r, "Risk weighted assets"))
    [] m \in {"Solvency ratio", "Solvency Ratio"} ->
         Quotient(CellOf(r, "Total Liabilities (excluding equity)"), CellOf(r, "Total Assets"))
    [] OTHER ->
         Quotient(CellOf(r, "Loans"), CellOf(r, "Total Deposits"))

\* Every figure is present and no denominator is zero (records of kind 1, 2).
CleanRows(df) == df.rows # <<>> /\ \A i \in 1..Len(df.rows) : df.rows[i].p \in {1, 2}

\* C4: over a non-empty peer set without zero denominators each per-bank
\* value is the catalog's numerator over its denominator and the average is
\* the arithmetic mean of all per-bank values; A: 80/100 and B: 60/120 give
\* an average of 0.65.
C4_CatalogRatioAndMean ==
  (RatioComputed /\ CleanRows(RatioFrame)) =>
    LET vals == Column(RatioFrame, metric)
    IN /\ \A i \in 1..Len(vals) : vals[i] = CatalogRatio(metric, RatioFrame.rows[i])
       /\ IsNum(sector_avg)
       /\ FSum(vals) = Norm(sector_avg.n * Len(vals), sector_avg.d)
       /\ (/\ Len(vals) = 2
           /\ RatioFrame.rows[1].p = 1 /\ RatioFrame.rows[2].p = 2
           /\ metric = "core deposits to total deposits")
            => sector_avg = Rat(13, 20)

\* C5: when the chosen bank is not a bank of the sheet, the run ends in the
\* outcome BankNotFoundError and no later step has run: no peer set is built,
\* no ratio or average is computed, nothing is shown.
C5_AbsentBankAborts ==
  (BankChosen /\ ~BankInDataset(df_raw, selected_bank)) =>
    /\ pc = "end"
    /\ outcome = "BankNotFoundError"
    /\ NothingComputed

\* C6: the N the peer set is built with satisfies 1 <= N <= len(banks)-1
\* for every number of banks, and with at most 3 banks (the default 3
\* exceeds len(banks)-1) the run ends in the outcome InvalidPeerCountError
\* before the slicing.
C6_PeerCountInRange ==
  /\ (rev = 2 /\ peer_df.kind = "df") => (1 <= peer_count /\ peer_count <= Len(banks) - 1)
  /\ (rev = 2 /\ BankChosen /\ Len(banks) <= PEER_DEFAULT) =>
       /\ pc = "end" /\ outcome = "InvalidPeerCountError"
       /\ peer_count = 0 /\ peer_df = NoFrame

\* C7: at every point of every run the loaded dataset df_raw has the
\* columns and the values it had right after the load, which are those of
\* the file; every computation writes to a copy.
C7_DatasetUnchanged ==
  df_raw.kind = "df" =>
    /\ df_raw = (IF rev = 1 THEN loaded ELSE session)
    /\ df_raw = ReadExcel(disk)

\* C8, first part: a run without a dataset in the session has stopped before
\* the bank list; with the file absent and nothing uploaded it is st.stop().
C8_NoDataStops ==
  (rev = 2 /\ session = NoFrame /\ pc # "start") =>
    /\ pc = "end" /\ outcome \in {"stopped", "ReadError"}
    /\ (disk = NoFile => outcome = "stopped" /\ uploader)
    /\ df_raw = NoFrame /\ banks = <<>> /\ selected_bank = NoBank /\ NothingComputed
\* C8, second part: an uploaded file is written to DATA_FILE and, when it can
\* be read, stored in the session.
C8_UploadStep ==
  (upload = NoFile /\ upload' # NoFile) =>
    /\ disk' = upload'
    /\ upload'.kind = "xlsx" =>
         (session'.kind = "df" /\ session'.cols = upload'.cols /\ session'.rows = upload'.rows)
\* C8, third part: once the session holds a dataset it keeps it, the file is
\* not read or written again, the uploader is not shown again, and every
\* run works on the session's dataset.
C8_SessionKept ==
  (rev = 2 /\ session # NoFrame) =>
    /\ session' = session /\ disk' = disk /\ reads' = reads
    /\ ~uploader' /\ upload' = NoFile
    /\ (pc = "start" /\ pc' # "start") => (pc' = "loaded" /\ df_raw' = session)
\* C8: the three parts hold along every sequence of runs of a session.
C8_SessionLifecycle == [](C8_NoDataStops) /\ [][C8_UploadStep /\ C8_SessionKept]_vars

\* C8's case: a readable file was uploaded: it is on disk and in the session,
\* and the script is about to run again.
C8_Witness ==
  /\ rev = 2
  /\ upload.kind = "xlsx"
  /\ disk = upload
  /\ session = Frame(upload.cols, upload.rows)
  /\ outcome = "rerun"

\* C9: with a CCAR field absent from the sheet the extraction (the CCAR
\* table of rev 2; rev 1 never reaches its CCAR block) yields a missing
\* marker instead of raising: the run that computed a metric does not end
\* with KeyError.
C9_StressMetricsExplicit ==
  (rev = 2 /\ metric # "none" /\ pc = "end" /\ ~(ccar_cols \subseteq session.cols))
    => outcome # "KeyError"

\* C10: when no bank has a defined value for the chosen ratio, no nan is
\* shown as the average: not in the metric text or chart title, not as the
\* average line, not in the summary, and no above/below is derived from it.
C10_NoNaNAverageShown ==
  (RatioComputed /\ \A i \in 1..Len(RatioFrame.rows) : ~IsNum(CellOf(RatioFrame.rows[i], metric))) =>
    /\ shown.avgText.k # "nan"
    /\ ~IsNaN(shown.avgLine)
    /\ rev = 2 => (shown.sumText.k # "nan" /\ (IsNaN(sector_avg) => shown.of_sector = "none"))

====
